---- MODULE Spec2Model ----
(***************************************************************************)
(* Model of src/src/server.js: the Express server that proxies an Azure AI *)
(* Projects agent.  GET /joke runs inside withSpan; GET /feedback does     *)
(* not.  Every remote round trip is an await point, so one action of the   *)
(* model is "the pending remote call of request r returns (or throws) and  *)
(* the handler runs on to its next await or to its end".                   *)
(***************************************************************************)
EXTENDS Integers, Sequences, FiniteSets, TLC

\* ------------------------------------------------------------------ bounds
NumReqs == 2          \* HTTP requests the model follows (they interleave)
MaxMsgs == 3          \* length of the message listings fed to the extractor

Reqs == 1..NumReqs

\* ------------------------------------------------------- JavaScript values
Undefined == "<undefined>"     \* undefined / null in a string position
Undef == -1                    \* undefined / null in a number position

SystemPrompt ==
  "You are a standup comedian, return back only one joke. The user will either like or dislike the joke"

\* settings.agentId and settings.feedbackAgentId
settings == [agentId |-> "agent_id", feedbackAgentId |-> "feedback_agent_id"]

\* Errors a remote call can throw: an Error with a message, and a thrown
\* value that has no .message (error?.message is undefined).
RemoteErrors ==
  { [message |-> "remote unavailable", str |-> "RestError: remote unavailable"],
    [message |-> Undefined,            str |-> "aborted"] }

NoError == [message |-> Undefined, str |-> "<none>"]

\* usage.inputTokens on a run without usage record
UsageTypeError ==
  [message |-> "Cannot read properties of undefined (reading 'inputTokens')",
   str     |-> "TypeError: Cannot read properties of undefined (reading 'inputTokens')"]

\* tracer.startActiveSpan with tracer undefined
TracerTypeError ==
  [message |-> "Cannot read properties of undefined (reading 'startActiveSpan')",
   str     |-> "TypeError: Cannot read properties of undefined (reading 'startActiveSpan')"]

NoAssistantError ==
  [message |-> "No assistant response was found for this thread",
   str     |-> "Error: No assistant response was found for this thread"]

\* ---------------------------------------------------------------- messages
\* A content block: type and text.value ("" is the empty string, Undefined a
\* block with no text field).
TextBlock(v)  == [type |-> "text", value |-> v]
ImageBlock    == [type |-> "image_file", value |-> Undefined]

\* A message of a thread.  isArray: whether message.content is an array.
\* run: the id of the run that produced it ("" when a client call appended it).
Msg(role, isArray, content, run) ==
  [role |-> role, isArray |-> isArray, content |-> content, run |-> run]


Truthy(v) == v # Undefined /\ v # ""

\* Lines 224-228: the first block of message.content with type "text" and a
\* truthy text.value; Undefined when the loop falls through.
RECURSIVE FirstTextValue(_)
FirstTextValue(content) ==
  IF content = <<>> THEN Undefined
  ELSE IF Head(content).type = "text" /\ Truthy(Head(content).value)
       THEN Head(content).value
       ELSE FirstTextValue(Tail(content))

\* The extractor without the role test of line 220
RECURSIVE getLatestAssistantMessageText_AnyRole(_)
getLatestAssistantMessageText_AnyRole(messages) ==
  IF messages = <<>> THEN [ok |-> FALSE, text |-> Undefined]
  ELSE LET message == Head(messages) IN
       IF ~message.isArray
       THEN getLatestAssistantMessageText_AnyRole(Tail(messages))
       ELSE IF FirstTextValue(message.content) # Undefined
            THEN [ok |-> TRUE, text |-> FirstTextValue(message.content)]
            ELSE getLatestAssistantMessageText_AnyRole(Tail(messages))

\* Lines 213-232 on the listing the platform returns (order "desc": newest
\* first).  [ok |-> FALSE] is the throw of line 231.
RECURSIVE getLatestAssistantMessageText(_)
getLatestAssistantMessageText(messages) ==
  IF messages = <<>> THEN [ok |-> FALSE, text |-> Undefined]
  ELSE LET message == Head(messages) IN
       IF message.role # "assistant" \/ ~message.isArray
       THEN getLatestAssistantMessageText(Tail(messages))
       ELSE IF FirstTextValue(message.content) # Undefined
            THEN [ok |-> TRUE, text |-> FirstTextValue(message.content)]
            ELSE getLatestAssistantMessageText(Tail(messages))

RECURSIVE Reverse(_)
Reverse(s) == IF s = <<>> THEN <<>> ELSE Append(Reverse(Tail(s)), Head(s))

\* messages.list(threadId, {order: "desc"}) over the platform's thread
ListDesc(thread) == Reverse(thread)

\* -------------------------------------------------------------------- span
\* The span of one invocation, as the calls the code makes on it.
\* One field per attribute key of the handler ("." written "_").
NoAttrs ==
  [gen_ai_system              |-> Undefined,
   gen_ai_provider_name       |-> Undefined,
   gen_ai_thread_id           |-> Undefined,
   gen_ai_agent_id            |-> Undefined,
   gen_ai_thread_run_id       |-> Undefined,
   gen_ai_response_id         |-> Undefined,
   gen_ai_usage_input_tokens  |-> Undef,
   gen_ai_usage_output_tokens |-> Undef]

NewSpan ==
  [started    |-> FALSE,
   attrs      |-> NoAttrs,
   events     |-> <<>>,
   status     |-> [code |-> "UNSET", message |-> Undefined],
   exceptions |-> <<>>,          \* errors given to recordException
   ends       |-> 0,             \* calls of span.end()
   lateWrites |-> 0]             \* writes made after span.end()

Late(s) == [s EXCEPT !.lateWrites = @ + 1]

SetStatus(s, code, message) ==
  IF s.ends > 0 THEN Late(s)
  ELSE [s EXCEPT !.status = [code |-> code, message |-> message]]

SetAttribute(s, key, value) ==
  IF s.ends > 0 THEN Late(s)
  ELSE [s EXCEPT !.attrs[key] = value]

AddEvent(s, event) ==
  IF s.ends > 0 THEN Late(s) ELSE [s EXCEPT !.events = Append(@, event)]

RecordException(s, error) ==
  IF s.ends > 0 THEN Late(s) ELSE [s EXCEPT !.exceptions = Append(@, error)]

SpanEnd(s) == [s EXCEPT !.ends = @ + 1]

\* error?.message ?? fallback
MessageOr(error, fallback) ==
  IF error.message # Undefined THEN error.message ELSE fallback


\* ------------------------------------------------------------ remote runs
\* run.usage: present is FALSE when the run carries no usage record; a field
\* the record lacks (or holds null in) is Undef.
Usage(present, it, it_, ot, ot_) ==
  [present |-> present, inputTokens |-> it, input_tokens |-> it_,
   outputTokens |-> ot, output_tokens |-> ot_]

NoUsage == Usage(FALSE, Undef, Undef, Undef, Undef)

Usages ==
  { NoUsage,
    Usage(TRUE, 10, Undef, 4, Undef),       \* camel-case fields (CamelUsage)
    Usage(TRUE, Undef, 5, Undef, 0),        \* snake-case fields, a count of 0
    Usage(TRUE, 0, 7, Undef, Undef) }       \* both conventions, no output count

\* What the platform's run leaves in the thread: a text reply, a reply
\* without any text block, or nothing.
Replies == {"text", "image", "none"}

\* The outcomes of createAndPoll(...).pollUntilDone(): the terminal run as
\* the client sees it and the reply the run produced.
Outcome(status, hasId, usage, lastError, reply) ==
  [status |-> status, hasId |-> hasId, usage |-> usage, lastError |-> lastError,
   reply |-> reply]

CamelUsage == Usage(TRUE, 10, Undef, 4, Undef)

RunOutcomes ==
  {Outcome("completed", TRUE, CamelUsage, Undefined, rp) : rp \in Replies}
  \cup {Outcome("completed", TRUE, u, Undefined, "text") : u \in Usages}
  \cup {Outcome("completed", FALSE, CamelUsage, Undefined, "text")}
  \cup {Outcome("failed", TRUE, u, "X", "none") : u \in {NoUsage, CamelUsage}}

\* /feedback reads only run.status and run.lastError (lines 194-198), so
\* its runs vary in those and in the reply alone.
FeedbackRunOutcomes ==
  {o \in RunOutcomes : o.hasId /\ o.usage = CamelUsage}

NoRun == [id |-> Undefined, status |-> Undefined, usage |-> NoUsage,
          lastError |-> Undefined]

\* The platform's identifiers are opaque and fresh; the model names a thread
\* and a run after the request whose call made the platform create it.
ThreadId(n) == "t" \o ToString(n)
RunId(n)    == "r" \o ToString(n)
ThreadIds   == {ThreadId(n) : n \in 1..NumReqs}

JokeText(runId) == "joke of " \o runId

\* The message a run appends to its thread
ReplyMessages(reply, runId) ==
  CASE reply = "text"  -> <<Msg("assistant", TRUE, <<TextBlock(JokeText(runId))>>, runId)>>
    [] reply = "image" -> <<Msg("assistant", TRUE, <<ImageBlock>>, runId)>>
    [] OTHER           -> <<>>

\* ---------------------------------------------------------------- requests
VARIABLES
  telemetry,   \* "pending", "initialized" or "failed" (telemetrySetup)
  tracer,      \* the module-level tracer: "undefined" or "joke-api"
  req,         \* per request: the handler's position, locals and effects
  threads,     \* the platform: thread id -> messages, oldest first
  created,     \* the platform: the ids of the threads it has created
  started,     \* the platform: the ids of the runs it has started
  extract,     \* a listing given to getLatestAssistantMessageText, and its result
  derive       \* a usage record given to the token-count lines, and the span after

vars == <<telemetry, tracer, req, threads, created, started, extract, derive>>

Idle ==
  [kind      |-> "none",        \* "joke" or "feedback" once it arrived
   pc        |-> "idle",        \* the remote call awaited, or "done"/"rejected"
   reaction  |-> Undefined,     \* req.query.reaction
   threadId  |-> Undefined,     \* req.query.threadId
   agent     |-> Undefined,     \* agent.id
   thread    |-> Undefined,     \* thread.id
   run       |-> NoRun,
   text      |-> Undefined,     \* messageText
   calls     |-> <<>>,          \* remote calls issued: <<name, thread id>>
   extracted |-> 0,             \* times getLatestAssistantMessageText ran
   raised    |-> <<>>,          \* errors raised inside the handler's try
   responses |-> <<>>,          \* responses sent: [status, body]
   nexts     |-> <<>>,          \* errors given to next()
   span      |-> NewSpan]

Call(q, name, thread) == [q EXCEPT !.calls = Append(@, <<name, thread>>)]

\* res.status(status).json(body)
Respond(q, status, body) ==
  [q EXCEPT !.responses = Append(@, [status |-> status, body |-> body])]

OnSpan(q, s) == [q EXCEPT !.span = s]


\* Response bodies, one field per key any of the handlers sends
Body(error, details, msg, message, threadId) ==
  [error |-> error, details |-> details, msg |-> msg, message |-> message,
   threadId |-> threadId]

\* Lines 235-241: the generic error handler
ErrorHandler(q, error) ==
  Respond(q, 500, Body("Internal Server Error", Undefined,
                       MessageOr(error, error.str), Undefined, Undefined))

\* next(error): Express hands the error to the error-handling middleware
NextError(q, error) ==
  ErrorHandler([q EXCEPT !.nexts = Append(@, error)], error)

\* A statement of the handler's try block raised error
Raise(q, error) == [q EXCEPT !.raised = Append(@, error)]

\* How a handler invocation comes back to withSpan: the request record and
\* the error its promise rejected with (NoError when it resolved).  The /joke
\* handler catches whatever its body raises, so its promise always resolves.
Resolved(q) == [q |-> q, thrown |-> NoError]

\* ---------------------------------------------------------------- withSpan
\* Lines 69-75: the catch of withSpan
WithSpanCatch(q, error) ==
  NextError(
    OnSpan(q, RecordException(
                SetStatus(q.span, "ERROR", MessageOr(error, error.str)), error)),
    error)

\* withSpan without its finally block
WithSpanFinally_NoEnd(q) == q

\* Lines 76-78: the finally of withSpan
WithSpanFinally(q) == OnSpan(q, SpanEnd(q.span))

\* Lines 66-79: what withSpan does once the handler's promise has settled
WithSpanSettle(h) ==
  [WithSpanFinally(IF h.thrown # NoError THEN WithSpanCatch(h.q, h.thrown) ELSE h.q)
     EXCEPT !.pc = "done"]

\* ------------------------------------------------------------------- /joke
JokePromptRole == "assistant"      \* line 108

\* The catch of the /joke handler rethrowing after next(error)
JokeCatch_Rethrow(q, error) ==
  [q |-> NextError(
           OnSpan(q, SetStatus(q.span, "ERROR",
                               MessageOr(error, "Unhandled error in /joke"))),
           error),
   thrown |-> error]

\* The catch of the /joke handler without its span.setStatus
JokeCatch_NoStatus(q, error) == Resolved(NextError(q, error))

\* Lines 160-166: the catch of the /joke handler; it does not rethrow
JokeCatch(q, error) ==
  Resolved(
    NextError(
      OnSpan(q, SetStatus(q.span, "ERROR",
                          MessageOr(error, "Unhandled error in /joke"))),
      error))

\* The try block of the /joke handler raised error
JokeFails(q, error) == WithSpanSettle(JokeCatch(Raise(q, error), error))

\* withSpan calling the handler without await: its finally ends the span when
\* the handler reaches its first await
JokeBegin_NotAwaited(q) ==
  Call([q EXCEPT !.kind = "joke", !.pc = "getAgent", !.span.started = TRUE,
                 !.span.ends = 1],
       "getAgent", Undefined)

\* Lines 62-68 and 87-90: withSpan opens the span, the handler asks for the agent
JokeBegin(q) ==
  Call([q EXCEPT !.kind = "joke", !.pc = "getAgent", !.span.started = TRUE],
       "getAgent", Undefined)

\* Lines 90-91: the agent is there, the handler asks for a thread
JokeAfterAgent(q, agentId) ==
  Call([q EXCEPT !.agent = agentId, !.pc = "threadsCreate"],
       "threads.create", Undefined)

\* The attributes taken from a thread id kept in a variable the invocations
\* share (here: the id of the first thread) instead of the handler's local
JokeThreadAttrs_FirstThread(s, threadId, agentId) ==
  AddEvent(
    SetAttribute(
      SetAttribute(
        SetAttribute(
          SetAttribute(s, "gen_ai_system", "azure_ai_projects"),
          "gen_ai_provider_name", "azure_ai_projects_agents"),
        "gen_ai_thread_id", ThreadId(1)),
      "gen_ai_agent_id", agentId),
    [name |-> "gen_ai.system.message", message |-> SystemPrompt, role |-> "system",
     threadId |-> ThreadId(1), runId |-> Undefined, responseId |-> Undefined])

\* Lines 93-104: the attributes and the event recorded before the append
JokeThreadAttrs(s, threadId, agentId) ==
  AddEvent(
    SetAttribute(
      SetAttribute(
        SetAttribute(
          SetAttribute(s, "gen_ai_system", "azure_ai_projects"),
          "gen_ai_provider_name", "azure_ai_projects_agents"),
        "gen_ai_thread_id", threadId),
      "gen_ai_agent_id", agentId),
    [name |-> "gen_ai.system.message", message |-> SystemPrompt, role |-> "system",
     threadId |-> threadId, runId |-> Undefined, responseId |-> Undefined])

\* The handler starting the run without appending the instruction first
JokeAfterThread_RunFirst(q, threadId) ==
  Call([OnSpan(q, JokeThreadAttrs(q.span, threadId, q.agent))
          EXCEPT !.thread = threadId, !.pc = "pollUntilDone"],
       "runs.createAndPoll", threadId)

\* Lines 91-110: the thread is there, the handler appends the instruction
JokeAfterThread(q, threadId) ==
  Call([OnSpan(q, JokeThreadAttrs(q.span, threadId, q.agent))
          EXCEPT !.thread = threadId, !.pc = "messagesCreate"],
       "messages.create", threadId)

\* The handler starting the run on the first thread of the process instead of
\* its own
JokeAfterMessage_FirstThread(q) ==
  Call([q EXCEPT !.pc = "pollUntilDone"], "runs.createAndPoll", ThreadId(1))

\* Lines 106-116: the append is done, the handler starts the run and polls it
JokeAfterMessage(q) ==
  Call([q EXCEPT !.pc = "pollUntilDone"], "runs.createAndPoll", q.thread)

\* a || b in place of a ?? b: a count of 0 gives way to b
Coalesce_Falsy(a, b) == IF a # Undef /\ a # 0 THEN a ELSE b

\* a ?? b
Coalesce(a, b) == IF a # Undef THEN a ELSE b

\* Lines 118-121
JokeRunAttrs(s, threadId, run) ==
  IF Truthy(run.id)
  THEN SetAttribute(SetAttribute(s, "gen_ai_thread_run_id", run.id),
                    "gen_ai_response_id", threadId \o "/" \o run.id)
  ELSE s

\* Lines 124-125
InputTokens(usage)  == Coalesce(usage.inputTokens, usage.input_tokens)
OutputTokens(usage) == Coalesce(usage.outputTokens, usage.output_tokens)

\* Lines 127-132
JokeUsageAttrs(s, usage) ==
  LET s1 == IF InputTokens(usage) # Undef
            THEN SetAttribute(s, "gen_ai_usage_input_tokens", InputTokens(usage))
            ELSE s
  IN IF OutputTokens(usage) # Undef
     THEN SetAttribute(s1, "gen_ai_usage_output_tokens", OutputTokens(usage))
     ELSE s1

\* Lines 134-140 (and 194-200): the answer to a run that failed
RunFailedResponse(q, run) ==
  Respond(q, 500, Body("The agent run failed", run.lastError,
                       Undefined, Undefined, Undefined))

\* Lines 116-142: the run is terminal
JokeAfterRun(q, run) ==
  LET q1 == OnSpan([q EXCEPT !.run = run], JokeRunAttrs(q.span, q.thread, run)) IN
  IF ~run.usage.present
  THEN JokeFails(q1, UsageTypeError)       \* line 124: usage.inputTokens
  ELSE LET q2 == OnSpan(q1, JokeUsageAttrs(q1.span, run.usage)) IN
       IF run.status = "failed"
       THEN WithSpanSettle(Resolved(RunFailedResponse(q2, run)))
       ELSE Call([q2 EXCEPT !.pc = "messagesList"], "messages.list", q2.thread)

\* Lines 144-159: the reply was found
JokeReply(q, messageText) ==
  LET rid == IF q.run.id # Undefined THEN q.run.id ELSE ""
      s1  == AddEvent(q.span,
               [name |-> "gen_ai.choice", message |-> messageText,
                role |-> "assistant", threadId |-> q.thread, runId |-> rid,
                responseId |-> q.thread \o "/" \o rid])
      s2  == SetStatus(s1, "OK", Undefined)
  IN Respond(OnSpan([q EXCEPT !.text = messageText], s2), 200,
             Body(Undefined, Undefined, Undefined, messageText, q.thread))

\* Lines 142-159: the listing is there
JokeAfterList(q, messages) ==
  LET q1 == [q EXCEPT !.extracted = @ + 1]
      found == getLatestAssistantMessageText(messages) IN
  IF found.ok
  THEN WithSpanSettle(Resolved(JokeReply(q1, found.text)))
  ELSE JokeFails(q1, NoAssistantError)


\* Lines 62-63 with tracer undefined: tracer.startActiveSpan raises a
\* TypeError before any span exists and the wrapper's promise rejects.
\* Express 5 forwards a rejected handler promise to next(); Express 4 leaves
\* it unhandled and the request is never answered.
JokeNoTracer(q, forwarded) ==
  LET q1 == [q EXCEPT !.kind = "joke", !.pc = "rejected"] IN
  IF forwarded THEN NextError(q1, TracerTypeError) ELSE q1

\* --------------------------------------------------------------- /feedback
Reactions == {Undefined, "", "like"}
QueryThreadIds == {Undefined, "", ThreadId(1)}

FeedbackRole == "assistant"        \* line 182

\* Line 183
FeedbackText(reaction) ==
  "The result of the joke was: " \o reaction
    \o ", return another joke based on this information"

\* The validation with && in place of ||
FeedbackInvalid_And(reaction, threadId) == ~Truthy(reaction) /\ ~Truthy(threadId)

\* Line 173: !reaction || !threadId
FeedbackInvalid(reaction, threadId) == ~Truthy(reaction) \/ ~Truthy(threadId)

\* The catch of the /feedback handler swallowing the error
FeedbackCatch_Swallow(q, error) == [q EXCEPT !.pc = "done"]

\* Lines 208-210: the catch of the /feedback handler
FeedbackCatch(q, error) == [NextError(q, error) EXCEPT !.pc = "done"]

FeedbackFails(q, error) == FeedbackCatch(Raise(q, error), error)

\* Lines 170-184: validation, then the append of the feedback message
FeedbackBegin(q, reaction, threadId) ==
  LET q1 == [q EXCEPT !.kind = "feedback", !.reaction = reaction,
                      !.threadId = threadId] IN
  IF FeedbackInvalid(reaction, threadId)
  THEN [Respond(q1, 400,
          Body("Both 'reaction' and 'threadId' query params are required",
               Undefined, Undefined, Undefined, Undefined))
          EXCEPT !.pc = "done"]
  ELSE Call([q1 EXCEPT !.pc = "messagesCreate"], "messages.create", threadId)

\* Lines 180-186: the append is done, the handler asks for the agent
FeedbackAfterMessage(q) ==
  Call([q EXCEPT !.pc = "getAgent"], "getAgent", Undefined)

\* Lines 186-192: the agent is there, the handler starts the run and polls it
FeedbackAfterAgent(q, agentId) ==
  Call([q EXCEPT !.agent = agentId, !.pc = "pollUntilDone"],
       "runs.createAndPoll", q.threadId)

\* The /feedback handler starting a second run when the first one failed
FeedbackAfterRun_Retry(q, run) ==
  LET q1 == [q EXCEPT !.run = run] IN
  IF run.status = "failed"
  THEN Call([q1 EXCEPT !.pc = "pollUntilDone"], "runs.createAndPoll", q1.threadId)
  ELSE Call([q1 EXCEPT !.pc = "messagesList"], "messages.list", q1.threadId)

\* Lines 192-202: the run is terminal
FeedbackAfterRun(q, run) ==
  LET q1 == [q EXCEPT !.run = run] IN
  IF run.status = "failed"
  THEN [RunFailedResponse(q1, run) EXCEPT !.pc = "done"]
  ELSE Call([q1 EXCEPT !.pc = "messagesList"], "messages.list", q1.threadId)

\* Lines 202-207: the listing is there
FeedbackAfterList(q, messages) ==
  LET q1 == [q EXCEPT !.extracted = @ + 1]
      found == getLatestAssistantMessageText(messages) IN
  IF found.ok
  THEN [Respond([q1 EXCEPT !.text = found.text], 200,
                Body(Undefined, Undefined, Undefined, found.text, q1.threadId))
          EXCEPT !.pc = "done"]
  ELSE FeedbackFails(q1, NoAssistantError)

\* ---------------------------------------------------------------- platform
ThreadExists(t) == t \in created

\* The run record pollUntilDone resolves with
RunOf(o, runId) ==
  [id |-> IF o.hasId THEN runId ELSE Undefined, status |-> o.status,
   usage |-> o.usage, lastError |-> o.lastError]

AwaitingRemote(q) ==
  q.pc \in {"getAgent", "threadsCreate", "messagesCreate", "pollUntilDone",
            "messagesList"}

\* ------------------------------------------------------------------ actions
NoDerive == [pc |-> "off", usage |-> NoUsage, span |-> NewSpan]

NoExtract == [pc |-> "off", messages |-> <<>>,
              result |-> [ok |-> FALSE, text |-> Undefined]]

Init ==
  /\ telemetry = "pending"
  /\ tracer = "undefined"
  /\ req = [r \in Reqs |-> Idle]
  /\ threads = [t \in ThreadIds |-> <<>>]
  /\ created = {}
  /\ started = {}
  /\ extract = NoExtract
  /\ derive = NoDerive

\* Lines 26-45 and 243: telemetrySetup settles before the server listens.
\* ok: nothing in the try threw, so line 39 assigned the tracer.
TelemetrySetup ==
  /\ telemetry = "pending"
  /\ \E ok \in BOOLEAN :
       /\ telemetry' = IF ok THEN "initialized" ELSE "failed"
       /\ tracer' = IF ok THEN "joke-api" ELSE "undefined"
  /\ UNCHANGED <<req, threads, created, started, extract, derive>>

\* Requests are numbered in their order of arrival
Arrives(r) ==
  /\ telemetry # "pending"
  /\ req[r].pc = "idle"
  /\ \A p \in Reqs : p < r => req[p].pc # "idle"

JokeRequest(r) ==
  /\ Arrives(r)
  /\ IF tracer = "undefined"
     THEN \E forwarded \in BOOLEAN :
            req' = [req EXCEPT ![r] = JokeNoTracer(@, forwarded)]
     ELSE req' = [req EXCEPT ![r] = JokeBegin(@)]
  /\ UNCHANGED <<telemetry, tracer, threads, created, started, extract, derive>>

JokeGetAgent(r) ==
  /\ req[r].kind = "joke" /\ req[r].pc = "getAgent"
  /\ req' = [req EXCEPT ![r] = JokeAfterAgent(@, settings.agentId)]
  /\ UNCHANGED <<telemetry, tracer, threads, created, started, extract, derive>>

JokeThreadsCreate(r) ==
  /\ req[r].kind = "joke" /\ req[r].pc = "threadsCreate"
  /\ created' = created \cup {ThreadId(r)}
  /\ req' = [req EXCEPT ![r] = JokeAfterThread(@, ThreadId(r))]
  /\ UNCHANGED <<telemetry, tracer, threads, started, extract, derive>>

JokeMessagesCreate(r) ==
  /\ req[r].kind = "joke" /\ req[r].pc = "messagesCreate"
  /\ threads' = [threads EXCEPT ![req[r].thread] =
       Append(@, Msg(JokePromptRole, TRUE, <<TextBlock(SystemPrompt)>>, ""))]
  /\ req' = [req EXCEPT ![r] = JokeAfterMessage(@)]
  /\ UNCHANGED <<telemetry, tracer, created, started, extract, derive>>

JokePollUntilDone(r) ==
  /\ req[r].kind = "joke" /\ req[r].pc = "pollUntilDone"
  /\ \E o \in RunOutcomes :
       /\ started' = started \cup {RunId(r)}
       /\ threads' = [threads EXCEPT ![req[r].thread] =
            @ \o ReplyMessages(o.reply, RunId(r))]
       /\ req' = [req EXCEPT ![r] = JokeAfterRun(@, RunOf(o, RunId(r)))]
  /\ UNCHANGED <<telemetry, tracer, created, extract, derive>>

JokeMessagesList(r) ==
  /\ req[r].kind = "joke" /\ req[r].pc = "messagesList"
  /\ req' = [req EXCEPT ![r] = JokeAfterList(@, ListDesc(threads[req[r].thread]))]
  /\ UNCHANGED <<telemetry, tracer, threads, created, started, extract, derive>>

\* The remote call the handler awaits throws
JokeRemoteThrows(r) ==
  /\ req[r].kind = "joke" /\ AwaitingRemote(req[r])
  /\ \E e \in RemoteErrors : req' = [req EXCEPT ![r] = JokeFails(@, e)]
  /\ UNCHANGED <<telemetry, tracer, threads, created, started, extract, derive>>

FeedbackRequest(r) ==
  /\ Arrives(r)
  /\ \E reaction \in Reactions, threadId \in QueryThreadIds :
       req' = [req EXCEPT ![r] = FeedbackBegin(@, reaction, threadId)]
  /\ UNCHANGED <<telemetry, tracer, threads, created, started, extract, derive>>

FeedbackMessagesCreate(r) ==
  /\ req[r].kind = "feedback" /\ req[r].pc = "messagesCreate"
  /\ ThreadExists(req[r].threadId)
  /\ threads' = [threads EXCEPT ![req[r].threadId] =
       Append(@, Msg(FeedbackRole, TRUE,
                     <<TextBlock(FeedbackText(req[r].reaction))>>, ""))]
  /\ req' = [req EXCEPT ![r] = FeedbackAfterMessage(@)]
  /\ UNCHANGED <<telemetry, tracer, created, started, extract, derive>>

FeedbackGetAgent(r) ==
  /\ req[r].kind = "feedback" /\ req[r].pc = "getAgent"
  /\ req' = [req EXCEPT ![r] = FeedbackAfterAgent(@, settings.feedbackAgentId)]
  /\ UNCHANGED <<telemetry, tracer, threads, created, started, extract, derive>>

FeedbackPollUntilDone(r) ==
  /\ req[r].kind = "feedback" /\ req[r].pc = "pollUntilDone"
  /\ \E o \in FeedbackRunOutcomes :
       /\ started' = started \cup {RunId(r)}
       /\ threads' = [threads EXCEPT ![req[r].threadId] =
            @ \o ReplyMessages(o.reply, RunId(r))]
       /\ req' = [req EXCEPT ![r] = FeedbackAfterRun(@, RunOf(o, RunId(r)))]
  /\ UNCHANGED <<telemetry, tracer, created, extract, derive>>

FeedbackMessagesList(r) ==
  /\ req[r].kind = "feedback" /\ req[r].pc = "messagesList"
  /\ req' = [req EXCEPT ![r] =
       FeedbackAfterList(@, ListDesc(threads[req[r].threadId]))]
  /\ UNCHANGED <<telemetry, tracer, threads, created, started, extract, derive>>

FeedbackRemoteThrows(r) ==
  /\ req[r].kind = "feedback" /\ AwaitingRemote(req[r])
  /\ \E e \in RemoteErrors : req' = [req EXCEPT ![r] = FeedbackFails(@, e)]
  /\ UNCHANGED <<telemetry, tracer, threads, created, started, extract, derive>>

Next ==
  \/ TelemetrySetup
  \/ \E r \in Reqs :
       \/ JokeRequest(r)
       \/ JokeGetAgent(r)
       \/ JokeThreadsCreate(r)
       \/ JokeMessagesCreate(r)
       \/ JokePollUntilDone(r)
       \/ JokeMessagesList(r)
       \/ JokeRemoteThrows(r)
       \/ FeedbackRequest(r)
       \/ FeedbackMessagesCreate(r)
       \/ FeedbackGetAgent(r)
       \/ FeedbackPollUntilDone(r)
       \/ FeedbackMessagesList(r)
       \/ FeedbackRemoteThrows(r)

Spec == Init /\ [][Next]_vars


\* ------------------------------------------- the extractor on any listing
\* Messages a listing can hold: either role, and content that is no array,
\* has no text block, has one, or has several (the first one empty or not).
ExContents ==
  { <<ImageBlock>>,
    <<TextBlock("a")>>,
    <<TextBlock(""), TextBlock("b")>>,
    <<TextBlock("c"), TextBlock("d")>> }

ExMessages ==
  {Msg(role, TRUE, c, "") : role \in {"user", "assistant"}, c \in ExContents}
  \cup {Msg("assistant", FALSE, <<>>, "")}

RECURSIVE SeqsUpTo(_, _)
SeqsUpTo(S, n) ==
  IF n = 0 THEN {<<>>}
  ELSE SeqsUpTo(S, n - 1)
       \cup {Append(sq, x) : sq \in {t \in SeqsUpTo(S, n - 1) : Len(t) = n - 1}, x \in S}

InitExtract ==
  /\ telemetry = "pending"
  /\ tracer = "undefined"
  /\ req = [r \in Reqs |-> Idle]
  /\ threads = [t \in ThreadIds |-> <<>>]
  /\ created = {}
  /\ started = {}
  /\ derive = NoDerive
  /\ \E ms \in SeqsUpTo(ExMessages, MaxMsgs) :
       extract = [pc |-> "listed", messages |-> ms,
                  result |-> [ok |-> FALSE, text |-> Undefined]]

\* Lines 213-232 applied to the listing
Extract ==
  /\ extract.pc = "listed"
  /\ extract' = [extract EXCEPT !.pc = "extracted",
                   !.result = getLatestAssistantMessageText(extract.messages)]
  /\ UNCHANGED <<telemetry, tracer, req, threads, created, started, derive>>

NextExtract == Extract

SpecExtract == InitExtract /\ [][NextExtract]_vars


\* ------------------------------------ the token-count lines on any usage
\* The values a token-count field can hold: absent or null, zero, positive
MaxTokens == 2
TokenValues == {Undef} \cup 0..MaxTokens

UsageRecords ==
  {Usage(TRUE, a, b, c, d) : a \in TokenValues, b \in TokenValues,
                             c \in TokenValues, d \in TokenValues}

InitUsage ==
  /\ telemetry = "pending"
  /\ tracer = "undefined"
  /\ req = [r \in Reqs |-> Idle]
  /\ threads = [t \in ThreadIds |-> <<>>]
  /\ created = {}
  /\ started = {}
  /\ extract = NoExtract
  /\ \E u \in UsageRecords : derive = [pc |-> "polled", usage |-> u, span |-> NewSpan]

\* Lines 123-132 applied to the usage record
DeriveUsage ==
  /\ derive.pc = "polled"
  /\ derive' = [derive EXCEPT !.pc = "derived",
                              !.span = JokeUsageAttrs(derive.span, derive.usage)]
  /\ UNCHANGED <<telemetry, tracer, req, threads, created, started, extract>>

NextUsage == DeriveUsage

SpecUsage == InitUsage /\ [][NextUsage]_vars

\* ------------------------------------------------------------- properties
Range(sq) == {sq[i] : i \in DOMAIN sq}

Min(S) == CHOOSE x \in S : \A y \in S : x <= y

IsJoke(r)     == req[r].kind = "joke"
IsFeedback(r) == req[r].kind = "feedback"

\* The thread an invocation works on, and the message it appends to it
ThreadOf(r) == IF IsJoke(r) THEN req[r].thread ELSE req[r].threadId
AppendedText(r) == IF IsJoke(r) THEN SystemPrompt ELSE FeedbackText(req[r].reaction)

\* The span of r was opened and has been ended
SpanEnded(r) == IsJoke(r) /\ req[r].span.started /\ req[r].span.ends >= 1

Answered(r, status) == \E p \in Range(req[r].responses) : p.status = status

RunFailedBody(run) ==
  Body("The agent run failed", run.lastError, Undefined, Undefined, Undefined)

\* C1: every /joke invocation that entered withSpan and opened its span has
\* ended that span exactly once when it is over, whatever its outcome, and
\* not before.
C1_SpanEndedOnce ==
  \A r \in Reqs :
    (IsJoke(r) /\ req[r].span.started) =>
      req[r].span.ends = IF req[r].pc = "done" THEN 1 ELSE 0

\* C1 witness: one invocation answered a failed run, another had its run
\* poll throw, and both spans are ended once.
C1_Witness ==
  \E r1, r2 \in Reqs :
    /\ IsJoke(r1) /\ req[r1].run.status = "failed" /\ Answered(r1, 500)
    /\ req[r1].raised = <<>> /\ req[r1].span.ends = 1
    /\ IsJoke(r2) /\ req[r2].raised # <<>> /\ req[r2].raised[1] \in RemoteErrors
    /\ <<"runs.createAndPoll", ThreadOf(r2)>> \in Range(req[r2].calls)
    /\ req[r2].span.ends = 1

C3_Claim ==
  \A r \in Reqs :
    (SpanEnded(r) /\ req[r].raised # <<>>) =>
      LET error == req[r].raised[1] IN
      /\ req[r].span.status.code = "ERROR"
      /\ error.message # Undefined => req[r].span.status.message = error.message
      /\ req[r].span.exceptions = <<error>>
      /\ req[r].nexts = <<error>>

\* C4: a /feedback invocation whose reaction or threadId is absent or empty
\* answers 400, once, and issues no remote call.
C4_FeedbackValidation ==
  \A r \in Reqs :
    (IsFeedback(r) /\ (req[r].reaction \in {Undefined, ""}
                       \/ req[r].threadId \in {Undefined, ""})) =>
      /\ req[r].pc = "done"
      /\ Len(req[r].responses) = 1
      /\ req[r].responses[1].status = 400
      /\ req[r].calls = <<>>
      /\ req[r].nexts = <<>>

\* C4 witness: a request with a reaction and an empty threadId, and one with
\* a threadId and no reaction, both answered 400.
C4_Witness ==
  \E r1, r2 \in Reqs :
    /\ IsFeedback(r1) /\ req[r1].reaction = "like" /\ req[r1].threadId = ""
    /\ Answered(r1, 400)
    /\ IsFeedback(r2) /\ req[r2].reaction = Undefined
    /\ req[r2].threadId = ThreadId(1) /\ Answered(r2, 400)

\* C5 as claimed: in both operations a run whose terminal status is failed
\* is answered 500 {error: 'The agent run failed', details: lastError}, the
\* extractor is not invoked and nothing goes to the generic error handler.
C5_Claim ==
  \A r \in Reqs :
    req[r].run.status = "failed" =>
      /\ req[r].responses = <<[status |-> 500, body |-> RunFailedBody(req[r].run)]>>
      /\ req[r].extracted = 0
      /\ req[r].nexts = <<>>

\* C6 as claimed: after a failed telemetry initialization a GET /joke is
\* still served: withSpan does not throw, so the invocation is never left
\* rejected and no TypeError of the tracer reaches the error handler.
C6_Claim ==
  \A r \in Reqs :
    (telemetry = "failed" /\ IsJoke(r)) =>
      /\ req[r].pc # "rejected"
      /\ TracerTypeError \notin Range(req[r].nexts)

\* C7: within one invocation the message is appended to the thread before
\* the run is started, and the run is started and seen terminal before the
\* thread's messages are listed.
C7_StepOrder ==
  \A r \in Reqs :
    \A i \in DOMAIN req[r].calls :
      /\ req[r].calls[i][1] = "runs.createAndPoll" =>
           /\ \E j \in 1..(i - 1) : req[r].calls[j] = <<"messages.create", ThreadOf(r)>>
           /\ \E m \in Range(threads[ThreadOf(r)]) :
                m.content = <<TextBlock(AppendedText(r))>>
      /\ req[r].calls[i][1] = "messages.list" =>
           /\ \E j \in 1..(i - 1) : req[r].calls[j][1] = "runs.createAndPoll"
           /\ RunId(r) \in started
           /\ req[r].run.status \notin {Undefined, "failed"}

\* C7 witness: a /joke and a /feedback invocation have both listed messages
C7_Witness ==
  \E r1, r2 \in Reqs :
    /\ IsJoke(r1) /\ <<"messages.list", ThreadOf(r1)>> \in Range(req[r1].calls)
    /\ IsFeedback(r2) /\ <<"messages.list", ThreadOf(r2)>> \in Range(req[r2].calls)

ThreadCalls == {"messages.create", "runs.createAndPoll", "messages.list"}

\* C8: a /joke invocation that answers 200 returns as threadId the id of the
\* thread its own threads.create made, and its message append, run start
\* and message listing all used that id.
C8_ThreadId ==
  \A r \in Reqs :
    (IsJoke(r) /\ Answered(r, 200)) =>
      /\ ThreadId(r) \in created
      /\ \A p \in Range(req[r].responses) : p.body.threadId = ThreadId(r)
      /\ \A n \in ThreadCalls : <<n, ThreadId(r)>> \in Range(req[r].calls)
      /\ \A c \in Range(req[r].calls) : c[1] \in ThreadCalls => c[2] = ThreadId(r)

\* C8 witness: two /joke invocations answered 200, each with its own thread
C8_Witness ==
  \E r1, r2 \in Reqs :
    /\ r1 # r2
    /\ IsJoke(r1) /\ Answered(r1, 200) /\ IsJoke(r2) /\ Answered(r2, 200)
    /\ req[r1].responses[1].body.threadId # req[r2].responses[1].body.threadId

\* C10 as claimed: a /joke run without usage record does not fault; the
\* operation goes on as otherwise (the failed-run answer when it failed).
C10_Claim ==
  \A r \in Reqs :
    (IsJoke(r) /\ req[r].run.status # Undefined /\ ~req[r].run.usage.present) =>
      /\ UsageTypeError \notin Range(req[r].raised)
      /\ req[r].run.status = "failed" =>
           req[r].responses = <<[status |-> 500, body |-> RunFailedBody(req[r].run)]>>

\* ------------------------------------------------ properties of the extractor
HasText(block) == block.type = "text" /\ block.value \notin {Undefined, ""}

Qualifies(m) ==
  m.role = "assistant" /\ m.isArray /\ \E j \in DOMAIN m.content : HasText(m.content[j])

\* C9 as claimed: the result is the text of the first text-tagged block of
\* the newest assistant message; with no assistant message the call fails;
\* the text never comes from an older assistant message.
C9_Claim ==
  extract.pc = "extracted" =>
    LET ms == extract.messages
        A  == {k \in DOMAIN ms : ms[k].role = "assistant"} IN
    IF A = {} THEN ~extract.result.ok
    ELSE LET m == ms[Min(A)]
             T == {j \in DOMAIN m.content : m.content[j].type = "text"} IN
         /\ T # {} => extract.result = [ok |-> TRUE, text |-> m.content[Min(T)].value]
         /\ extract.result.ok => \E j \in T : extract.result.text = m.content[j].value

\* C9 as amended: the result is the text of the first text block with a
\* non-empty value of the newest assistant message that has array content
\* and such a block; assistant messages without one are passed over, so an
\* older one can supply the text; the call fails when no message qualifies.
C9_Extractor ==
  extract.pc = "extracted" =>
    LET ms == extract.messages
        K  == {k \in DOMAIN ms : Qualifies(ms[k])} IN
    IF K = {} THEN ~extract.result.ok
    ELSE LET m == ms[Min(K)]
             J == {j \in DOMAIN m.content : HasText(m.content[j])} IN
         extract.result = [ok |-> TRUE, text |-> m.content[Min(J)].value]

\* C9 witness: the third-newest message is the first assistant message with
\* a text; a newer assistant message without text was passed over.
C9_Witness ==
  /\ extract.pc = "extracted"
  /\ Len(extract.messages) = 3
  /\ extract.messages[1].role = "user"
  /\ extract.messages[2] = Msg("assistant", TRUE, <<ImageBlock>>, "")
  /\ extract.messages[3] = Msg("assistant", TRUE, <<TextBlock("c"), TextBlock("d")>>, "")
  /\ extract.result = [ok |-> TRUE, text |-> "c"]


\* ------------------------------------------------- properties, second part
\* How often the invocation issued the remote call name
CallCount(r, name) ==
  Cardinality({i \in DOMAIN req[r].calls : req[r].calls[i][1] = name})

GenericBody(error) ==
  Body("Internal Server Error", Undefined,
       IF error.message # Undefined THEN error.message ELSE error.str,
       Undefined, Undefined)

\* C11: in both operations an exception of a remote call (or of the reply
\* extraction finding no assistant text) gives exactly one response, the 500
\* {error: 'Internal Server Error', msg}, never a 200; no call was issued
\* twice and the invocation is over, without a reply extracted.
C11_RemoteFault ==
  \A r \in Reqs :
    (req[r].raised # <<>>
       /\ req[r].raised[1] \in RemoteErrors \cup {NoAssistantError}) =>
      /\ req[r].responses = <<[status |-> 500, body |-> GenericBody(req[r].raised[1])]>>
      /\ req[r].pc = "done"
      /\ req[r].text = Undefined
      /\ \A c \in Range(req[r].calls) : CallCount(r, c[1]) = 1

\* C11 witness: a /joke whose run poll threw an Error and a /feedback whose
\* message listing threw a value without message, each answered once.
C11_Witness ==
  \E r1, r2 \in Reqs :
    /\ IsJoke(r1) /\ req[r1].raised # <<>>
    /\ req[r1].raised[1].message = "remote unavailable"
    /\ req[r1].calls[Len(req[r1].calls)][1] = "runs.createAndPoll"
    /\ IsFeedback(r2) /\ req[r2].raised # <<>>
    /\ req[r2].raised[1].message = Undefined
    /\ req[r2].calls[Len(req[r2].calls)][1] = "messages.list"
    /\ Len(req[r2].responses) = 1

\* C12 as claimed: the instruction /joke appends has the system role, so
\* between the append and the run the thread holds no assistant message.
C12_Claim ==
  \A r \in Reqs :
    (IsJoke(r) /\ req[r].pc = "pollUntilDone") =>
      /\ \E m \in Range(threads[req[r].thread]) :
           m.role = "system" /\ m.content = <<TextBlock(SystemPrompt)>>
      /\ \A m \in Range(threads[req[r].thread]) : m.role # "assistant"

\* C13: an invocation starts at most one run and polls it once; once its
\* run is terminal (failed included) or a call threw, exactly that one
\* createAndPoll was issued, or none.
C13_OneRun ==
  \A r \in Reqs :
    /\ CallCount(r, "runs.createAndPoll") <= 1
    /\ req[r].run.status # Undefined => CallCount(r, "runs.createAndPoll") = 1
    /\ req[r].pc = "pollUntilDone" => req[r].run.status = Undefined

\* C13 witness: a /joke and a /feedback invocation are over after a failed
\* run, each with one run started.
C13_Witness ==
  \E r1, r2 \in Reqs :
    /\ IsJoke(r1) /\ req[r1].pc = "done" /\ req[r1].run.status = "failed"
    /\ CallCount(r1, "runs.createAndPoll") = 1
    /\ IsFeedback(r2) /\ req[r2].pc = "done" /\ req[r2].run.status = "failed"
    /\ CallCount(r2, "runs.createAndPoll") = 1


\* The text values a message carries
TextsOf(m) == {m.content[j].value : j \in DOMAIN m.content}

\* C14: concurrent /joke invocations share nothing: the span attributes, the
\* events, the run, the extracted text and the response threadId of each
\* refer to the thread and the run that invocation created, never to those
\* of another /joke invocation, and its span is ended once, when it is over.
C14_Isolation ==
  \A r \in Reqs :
    IsJoke(r) =>
      /\ req[r].thread \in {Undefined, ThreadId(r)}
      /\ req[r].run.id \in {Undefined, RunId(r)}
      /\ req[r].span.attrs.gen_ai_thread_id \in {Undefined, ThreadId(r)}
      /\ req[r].span.attrs.gen_ai_thread_run_id \in {Undefined, RunId(r)}
      /\ req[r].span.attrs.gen_ai_response_id
           \in {Undefined, ThreadId(r) \o "/" \o RunId(r)}
      /\ \A e \in Range(req[r].span.events) : e.threadId = ThreadId(r)
      /\ \A p \in Range(req[r].responses) : p.body.threadId \in {Undefined, ThreadId(r)}
      /\ req[r].text # Undefined =>
           /\ \E m \in Range(threads[ThreadId(r)]) : req[r].text \in TextsOf(m)
           /\ \A o \in Reqs : (o # r /\ IsJoke(o)) => req[r].text # JokeText(RunId(o))
      /\ req[r].span.started => req[r].span.ends = IF req[r].pc = "done" THEN 1 ELSE 0

\* C14 witness: two /joke invocations in flight at once, each past its run
\* and awaiting its listing.
C14_Witness ==
  \E r1, r2 \in Reqs :
    /\ r1 # r2 /\ IsJoke(r1) /\ IsJoke(r2)
    /\ req[r1].pc = "messagesList" /\ req[r2].pc = "messagesList"
    /\ req[r1].span.attrs.gen_ai_response_id # Undefined
    /\ req[r2].span.attrs.gen_ai_response_id # Undefined
    /\ req[r1].span.attrs.gen_ai_response_id # req[r2].span.attrs.gen_ai_response_id


\* The value the claim gives an attribute: the camel-case field when it is
\* present, else the snake-case field when that is present, else unset
Preferred(camel, snake) ==
  IF camel # Undef THEN camel ELSE IF snake # Undef THEN snake ELSE Undef

\* C15: gen_ai.usage.input_tokens is inputTokens when present, otherwise
\* input_tokens when present, otherwise not set; the same for the output
\* count; a present 0 is recorded.
C15_TokenAttrs ==
  derive.pc = "derived" =>
    /\ derive.span.attrs.gen_ai_usage_input_tokens
         = Preferred(derive.usage.inputTokens, derive.usage.input_tokens)
    /\ derive.span.attrs.gen_ai_usage_output_tokens
         = Preferred(derive.usage.outputTokens, derive.usage.output_tokens)

\* C15 witness: a camel-case input count of 0 beside a snake-case one of 2,
\* and only a snake-case output count: 0 and the snake-case value recorded.
C15_Witness ==
  /\ derive.pc = "derived"
  /\ derive.usage = Usage(TRUE, 0, 2, Undef, 1)
  /\ derive.span.attrs.gen_ai_usage_input_tokens = 0
  /\ derive.span.attrs.gen_ai_usage_output_tokens = 1


HasEvent(r, name) == \E e \in Range(req[r].span.events) : e.name = name

\* C16 as claimed: a /joke span carries the gen_ai.system.message event only
\* if the instruction was appended to the thread; an invocation that is over
\* after a failed append has no such event.
C16_Claim ==
  \A r \in Reqs :
    (IsJoke(r) /\ req[r].pc = "done" /\ HasEvent(r, "gen_ai.system.message")) =>
      \E m \in Range(threads[req[r].thread]) :
        m.content = <<TextBlock(SystemPrompt)>>

\* C17 as claimed: the message of a 200 answer of /joke is the text of a
\* message the invocation's own run produced, never the instruction the
\* handler appended itself.
C17_Claim ==
  \A r \in Reqs :
    (IsJoke(r) /\ Answered(r, 200)) =>
      \A p \in Range(req[r].responses) :
        /\ p.body.message # SystemPrompt
        /\ \E m \in Range(threads[ThreadId(r)]) :
             m.run = RunId(r) /\ p.body.message \in TextsOf(m)

\* Responses the handler sent itself (the generic error handler sends one
\* for each error given to next)
HandlerResponses(r) == Len(req[r].responses) - Len(req[r].nexts)

\* C18: with telemetry initialized, an invocation that is over delivered
\* exactly one outcome, a response of the handler or an error given to
\* next(), and one that is not over has delivered none yet.
C18_OneOutcome ==
  telemetry = "initialized" =>
    \A r \in Reqs :
      IF req[r].pc = "done"
      THEN /\ HandlerResponses(r) + Len(req[r].nexts) = 1
           /\ Len(req[r].responses) = 1
      ELSE req[r].responses = <<>> /\ req[r].nexts = <<>>

\* C18 witness: a /joke answered by its handler and a /feedback whose error
\* went to next(), both over.
C18_Witness ==
  /\ telemetry = "initialized"
  /\ \E r1, r2 \in Reqs :
       /\ IsJoke(r1) /\ req[r1].pc = "done" /\ Answered(r1, 200)
       /\ req[r1].nexts = <<>>
       /\ IsFeedback(r2) /\ req[r2].pc = "done" /\ Len(req[r2].nexts) = 1
       /\ HandlerResponses(r2) = 0

\* C19: nothing is written to a /joke span after it was ended
C19_NoLateWrite ==
  \A r \in Reqs : req[r].span.lateWrites = 0

\* C19 witness: a span ended after both events, the attributes and the OK
\* status, and one ended after the ERROR status of the catch.
C19_Witness ==
  \E r1, r2 \in Reqs :
    /\ IsJoke(r1) /\ req[r1].span.ends = 1 /\ Len(req[r1].span.events) = 2
    /\ req[r1].span.status.code = "OK"
    /\ req[r1].span.attrs.gen_ai_usage_input_tokens # Undef
    /\ IsJoke(r2) /\ req[r2].span.ends = 1 /\ req[r2].span.status.code = "ERROR"
    /\ req[r1].span.lateWrites = 0 /\ req[r2].span.lateWrites = 0

====
